---- MODULE Spec2Model ----
(***************************************************************************)
(* Model of the nifty500-eod-upstox dashboard scripts.                     *)
(*                                                                         *)
(* Three page scripts load an index card per symbol (fetch a CSV, parse    *)
(* it, take the trailing window, fill the card, draw the chart):           *)
(*   "main"    docs/main.js            loadSymbol                          *)
(*   "part000" unnamed/part_000        loadSymbol (no try/catch, fixed     *)
(*                                     column positions 1 and 5)           *)
(*   "hist"    docs/historical-test.js parseCsv + loadIndexCard            *)
(* and docs/historical-test.js also fills and filters the results table.   *)
(*                                                                         *)
(* Text is a sequence of one-character strings, so that trim, split,       *)
(* indexOf, parseFloat, toFixed and toLowerCase are computed as the        *)
(* scripts compute them.  A number is a record [k, v]: k = "num" with v    *)
(* the value in hundredths, or k = "nan", "inf", "ninf".                   *)
(***************************************************************************)
EXTENDS Integers, Sequences, FiniteSets, TLC

VARIABLES
  variant,      \* which page script runs: "main", "part000" or "hist"
  chartPoints,  \* the configured CHART_POINTS (120 in the scripts)
  file,         \* logical content of the hosted CSV: [tbl, recs]
  text,         \* the fetched response text (a character sequence)
  stage,        \* position in the parse/summarise/render pipeline
  rows,         \* the parsed series
  recent,       \* rows.slice(-CHART_POINTS)
  last,         \* recent[recent.length - 1]
  prev,         \* the previous record (or last / null / undefined)
  layout,       \* which DOM elements the pipeline's card has
  card,         \* the card and chart of the pipeline: content written so far
  pc,           \* per symbol: position of its asynchronous load
  page,         \* per symbol: which DOM elements exist
  resp,         \* per symbol: the response the fetch resolved with
  dom,          \* per symbol: content written to its card and chart
  tbody,        \* the results table: sequence of rows [cells, display]
  tstate,       \* the table handler's position
  queries       \* the search inputs typed so far, oldest first

parseVars == <<file, text, stage, rows, recent, last, prev, layout, card>>
loadVars  == <<pc, page, resp, dom>>
tableVars == <<tbody, tstate, queries>>
vars == <<variant, chartPoints, parseVars, loadVars, tableVars>>

(***************************************************************************)
(* Bounds of the model.                                                    *)
(***************************************************************************)
MaxRecs == 3          \* data lines in a hosted CSV
MaxChartPoints == 2   \* CHART_POINTS ranges over 1..MaxChartPoints
NumSymbols == 2       \* symbols loaded concurrently (INDEX_SYMBOLS)
MaxSearches == 2      \* search inputs typed into the table filter
MaxTableRows == 2     \* rows of historical-test-data.json

Variants == {"main", "part000", "hist"}

(***************************************************************************)
(* Characters and strings.                                                 *)
(***************************************************************************)
LF == "\n"
CR == "\r"
TAB == "\t"
SP == " "
WhiteSpace == {SP, LF, CR, TAB}
Digits == {"0", "1", "2", "3", "4", "5", "6", "7", "8", "9"}

\* The value `undefined` where a string is expected, and its ToString.
UNDEF == <<"undefined">>

DigitVal(c) ==
  CASE c = "0" -> 0 [] c = "1" -> 1 [] c = "2" -> 2 [] c = "3" -> 3
    [] c = "4" -> 4 [] c = "5" -> 5 [] c = "6" -> 6 [] c = "7" -> 7
    [] c = "8" -> 8 [] c = "9" -> 9

DigitChar(d) ==
  CASE d = 0 -> "0" [] d = 1 -> "1" [] d = 2 -> "2" [] d = 3 -> "3"
    [] d = 4 -> "4" [] d = 5 -> "5" [] d = 6 -> "6" [] d = 7 -> "7"
    [] d = 8 -> "8" [] d = 9 -> "9"

RECURSIVE Concat(_)
Concat(ss) == IF ss = <<>> THEN <<>> ELSE Head(ss) \o Concat(Tail(ss))

RECURSIVE Join(_, _)
Join(ss, sep) ==
  IF ss = <<>> THEN <<>>
  ELSE IF Len(ss) = 1 THEN ss[1]
  ELSE ss[1] \o sep \o Join(Tail(ss), sep)

\* String.prototype.trim
RECURSIVE TrimLeft(_)
TrimLeft(s) ==
  IF s # <<>> /\ Head(s) \in WhiteSpace THEN TrimLeft(Tail(s)) ELSE s

RECURSIVE TrimRight(_)
TrimRight(s) ==
  IF s # <<>> /\ s[Len(s)] \in WhiteSpace
  THEN TrimRight(SubSeq(s, 1, Len(s) - 1)) ELSE s

Trim(s) == TrimRight(TrimLeft(s))

\* String.prototype.split(c) for a one-character separator: "" gives [""].
RECURSIVE SplitFrom(_, _, _)
SplitFrom(s, c, cur) ==
  IF s = <<>> THEN <<cur>>
  ELSE IF Head(s) = c THEN <<cur>> \o SplitFrom(Tail(s), c, <<>>)
  ELSE SplitFrom(Tail(s), c, Append(cur, Head(s)))

Split(s, c) == SplitFrom(s, c, <<>>)

\* split(/\r?\n/): a line ends at "\n", and a "\r" right before it goes too.
StripCR(l) ==
  IF l # <<>> /\ l[Len(l)] = CR THEN SubSeq(l, 1, Len(l) - 1) ELSE l

SplitLines(s) ==
  LET ls == Split(s, LF)
  IN [i \in 1..Len(ls) |-> IF i < Len(ls) THEN StripCR(ls[i]) ELSE ls[i]]

\* Array.prototype.indexOf, 0-based, -1 when absent.
IndexOf(arr, x) ==
  IF \E i \in 1..Len(arr) : arr[i] = x
  THEN (CHOOSE i \in 1..Len(arr) :
          arr[i] = x /\ \A j \in 1..(i - 1) : arr[j] # x) - 1
  ELSE -1

\* arr[idx] with a 0-based index: undefined outside the array.
At(arr, idx) == IF idx >= 0 /\ idx < Len(arr) THEN arr[idx + 1] ELSE UNDEF

\* Array.prototype.slice(-n) for n >= 1.
SliceLast(arr, n) ==
  LET from == IF Len(arr) > n THEN Len(arr) - n ELSE 0
  IN SubSeq(arr, from + 1, Len(arr))

Max(a, b) == IF a >= b THEN a ELSE b

(***************************************************************************)
(* Numbers.                                                                *)
(***************************************************************************)
Num(v) == [k |-> "num", v |-> v]
NaN == [k |-> "nan", v |-> 0]
PosInf == [k |-> "inf", v |-> 0]
NegInf == [k |-> "ninf", v |-> 0]

isNaN(x) == x.k = "nan"

\* The digits at the front of s, and what follows them.
RECURSIVE DigitRun(_)
DigitRun(s) ==
  IF s # <<>> /\ Head(s) \in Digits
  THEN LET r == DigitRun(Tail(s))
       IN [ds |-> <<Head(s)>> \o r.ds, rest |-> r.rest]
  ELSE [ds |-> <<>>, rest |-> s]

RECURSIVE DigitsVal(_, _)
DigitsVal(ds, acc) ==
  IF ds = <<>> THEN acc ELSE DigitsVal(Tail(ds), 10 * acc + DigitVal(Head(ds)))

\* parseFloat: leading white space, an optional sign, digits, an optional
\* fraction; the longest such prefix is the value and the rest is ignored;
\* no digit at all gives NaN.  Fractions are kept to two places (the model's
\* inputs have no more), exponents and "Infinity" are not among the inputs.
parseFloat(str) ==
  LET s0  == TrimLeft(str)
      neg == s0 # <<>> /\ Head(s0) = "-"
      s1  == IF s0 # <<>> /\ Head(s0) \in {"-", "+"} THEN Tail(s0) ELSE s0
      ip  == DigitRun(s1)
      fp  == IF ip.rest # <<>> /\ Head(ip.rest) = "."
             THEN DigitRun(Tail(ip.rest)) ELSE [ds |-> <<>>, rest |-> ip.rest]
      f2  == SubSeq(fp.ds \o <<"0", "0">>, 1, 2)
      mag == 100 * DigitsVal(ip.ds, 0) + DigitsVal(f2, 0)
  IN IF ip.ds = <<>> /\ fp.ds = <<>> THEN NaN
     ELSE Num(IF neg THEN 0 - mag ELSE mag)

\* a - b
Sub(a, b) == IF a.k = "num" /\ b.k = "num" THEN Num(a.v - b.v) ELSE NaN

\* diff >= 0 (false for NaN)
GeZero(a) == a.k = "num" /\ a.v >= 0

\* Truthiness of a number: 0 and NaN are falsy.
Truthy(a) == ~(a.k = "nan") /\ ~(a.k = "num" /\ a.v = 0)

Abs(n) == IF n < 0 THEN 0 - n ELSE n

\* n / d rounded to the nearest integer, halves away from zero (d # 0).
RoundDiv(n, d) ==
  LET q == (2 * Abs(n) + Abs(d)) \div (2 * Abs(d))
  IN IF (n < 0) # (d < 0) THEN 0 - q ELSE q

\* (diff / prev) * 100, to the two decimals toFixed(2) keeps: IEEE division,
\* so x/0 is Infinity, -Infinity or (0/0) NaN, never an exception.
Pct(diff, p) ==
  IF diff.k # "num" \/ p.k # "num" THEN NaN
  ELSE IF p.v = 0
       THEN (IF diff.v > 0 THEN PosInf ELSE IF diff.v < 0 THEN NegInf ELSE NaN)
  ELSE Num(RoundDiv(10000 * diff.v, p.v))

RECURSIVE NatStr(_)
NatStr(n) ==
  IF n < 10 THEN <<DigitChar(n)>> ELSE NatStr(n \div 10) \o <<DigitChar(n % 10)>>

\* Number.prototype.toFixed(2)
toFixed2(x) ==
  CASE x.k = "nan"  -> <<"N", "a", "N">>
    [] x.k = "inf"  -> <<"I", "n", "f", "i", "n", "i", "t", "y">>
    [] x.k = "ninf" -> <<"-", "I", "n", "f", "i", "n", "i", "t", "y">>
    [] x.k = "num"  ->
         (IF x.v < 0 THEN <<"-">> ELSE <<>>)
         \o NatStr(Abs(x.v) \div 100) \o <<".">>
         \o <<DigitChar((Abs(x.v) % 100) \div 10), DigitChar(Abs(x.v) % 10)>>

(***************************************************************************)
(* The hosted CSV files the model serves.  A table fixes the header and    *)
(* where a data line carries its date and its close; a data line is a      *)
(* record [date, close, num, cut]: its date, its close as written and as   *)
(* the number it denotes, and how many fields of the line are kept (0:     *)
(* all of them).  Lines end with "\n" or "\r\n".                           *)
(***************************************************************************)
sDate == <<"D", "a", "t", "e">>
sClose == <<"C", "l", "o", "s", "e">>
sTime == <<"T", "i", "m", "e">>
sPrice == <<"P", "r", "i", "c", "e">>
sX == <<"x">>

Tables ==
  { [header |-> <<sDate, sClose>>, datePos |-> 1, closePos |-> 2],
    [header |-> <<sClose, sDate>>, datePos |-> 2, closePos |-> 1],
    [header |-> <<sTime, sClose>>, datePos |-> 1, closePos |-> 2],
    [header |-> <<sDate, sPrice>>, datePos |-> 1, closePos |-> 2],
    [header |-> <<sX, sDate, sX, sX, sX, sClose>>, datePos |-> 2, closePos |-> 6] }

d1 == <<"d", "1">>
d2 == <<"d", "2">>

Recs ==
  { [date |-> d1, close |-> <<"1", "0", "0">>, num |-> Num(10000), cut |-> 0],
    [date |-> d2, close |-> <<"1", "1", "0">>, num |-> Num(11000), cut |-> 0],
    [date |-> d1, close |-> <<"0">>, num |-> Num(0), cut |-> 0],
    [date |-> d2, close |-> <<"a", "b", "c">>, num |-> NaN, cut |-> 0],
    [date |-> d1, close |-> <<"1", "0", "0">>, num |-> Num(10000), cut |-> 1] }

RecSeqs == UNION { [1..n -> Recs] : n \in 0..MaxRecs }

Eols == { <<LF>>, <<CR, LF>> }

Files ==
  { [tbl |-> t, recs |-> rs, eol |-> e] :
      t \in Tables, rs \in RecSeqs, e \in Eols }

\* The fields of one data line.
Fields(t, r) ==
  LET all == [i \in 1..Len(t.header) |->
                IF i = t.datePos THEN r.date
                ELSE IF i = t.closePos THEN r.close ELSE sX]
  IN IF r.cut = 0 THEN all ELSE SubSeq(all, 1, r.cut)

\* The text of a hosted file: header and data lines, each ended by its eol.
CsvText(f) ==
  Concat([i \in 1..(Len(f.recs) + 1) |->
            (IF i = 1 THEN Join(f.tbl.header, <<",">>)
             ELSE Join(Fields(f.tbl, f.recs[i - 1]), <<",">>)) \o f.eol])

(***************************************************************************)
(* Parsing.                                                                *)
(***************************************************************************)
Row(date, close) == [date |-> date, close |-> close]

\* main.js loadSymbol, lines 36-49: no check of the indices or of the
\* number of fields; rows whose close is NaN are filtered out.
mainRows(txt) ==
  LET lines    == SplitLines(Trim(txt))
      headers  == Split(lines[1], ",")
      dateIdx  == IndexOf(headers, sDate)
      closeIdx == IndexOf(headers, sClose)
      mapped   == [i \in 1..(Len(lines) - 1) |->
                     LET cols == Split(lines[i + 1], ",")
                     IN Row(At(cols, dateIdx), parseFloat(At(cols, closeIdx)))]
  IN SelectSeq(mapped, LAMBDA r : ~isNaN(r.close))

\* part_000 loadSymbol, lines 25-28: split on "\n" alone, the header is
\* dropped unread, date and close are fields 1 and 5.
part000Rows(txt) ==
  LET lines  == Split(Trim(txt), LF)
      mapped == [i \in 1..(Len(lines) - 1) |->
                   LET c == Split(lines[i + 1], ",")
                   IN Row(At(c, 1), parseFloat(At(c, 5)))]
  IN SelectSeq(mapped, LAMBDA x : ~isNaN(x.close))

\* historical-test.js parseCsv: a line with too few fields is skipped, and
\* every other line is pushed, whatever its close parses to.  (split always
\* returns at least one line, so `if (!lines.length) return []` never runs.)
parseCsv(txt) ==
  LET lines    == SplitLines(Trim(txt))
      headers  == Split(lines[1], ",")
      dateIdx  == IndexOf(headers, sDate)
      closeIdx == IndexOf(headers, sClose)
      data     == SubSeq(lines, 2, Len(lines))
      kept     == SelectSeq(data, LAMBDA l :
                     ~(Len(Split(l, ",")) < Max(dateIdx, closeIdx) + 1))
  IN [i \in 1..Len(kept) |->
        LET cols == Split(kept[i], ",")
        IN Row(At(cols, dateIdx), parseFloat(At(cols, closeIdx)))]

Parse(v, txt) ==
  CASE v = "main" -> mainRows(txt)
    [] v = "part000" -> part000Rows(txt)
    [] v = "hist" -> parseCsv(txt)

(***************************************************************************)
(* The trailing window and the records the card shows.                     *)
(***************************************************************************)
Undefined == [undefined |-> TRUE]
Null == [null |-> TRUE]

IsRecord(r) == r # Undefined /\ r # Null

\* What rows.slice(0, CHART_POINTS) would give: the leading records.
RecentLeading(rws, cp) ==
  SubSeq(rws, 1, IF Len(rws) > cp THEN cp ELSE Len(rws))

\* rows.slice(-CHART_POINTS)
Recent(rws, cp) == SliceLast(rws, cp)

\* recent[recent.length - 1]
LastOf(rec) == IF rec # <<>> THEN rec[Len(rec)] ELSE Undefined

\* main.js line 55, part_000 line 32, historical-test.js line 113
PrevOf(v, rec) ==
  IF Len(rec) > 1 THEN rec[Len(rec) - 1]
  ELSE CASE v = "main" -> LastOf(rec)
         [] v = "part000" -> Undefined
         [] v = "hist" -> Null

(***************************************************************************)
(* The card.  A layout says which elements the page has; a card holds what *)
(* has been written to them and how the load ended: "returned", "caught"   *)
(* (an exception reached the catch block and was logged) or "threw" (the   *)
(* exception left the function: the promise of the load is rejected).      *)
(***************************************************************************)
Unwritten == <<"(initial)">>
NoChart == [none |-> TRUE]

Layout(c, l, ch, x) == [card |-> c, lastEl |-> l, changeEl |-> ch, ctx |-> x]
Full == Layout(TRUE, TRUE, TRUE, TRUE)
NoCard == Layout(FALSE, FALSE, FALSE, TRUE)
Layouts ==
  { Full, NoCard, Layout(TRUE, FALSE, TRUE, TRUE),
    Layout(TRUE, TRUE, FALSE, TRUE), Layout(TRUE, TRUE, TRUE, FALSE) }

EmptyCard ==
  [lastClose |-> Unwritten, change |-> Unwritten, classes |-> {},
   chart |-> NoChart, result |-> "pending"]

Ended(c, how) == [c EXCEPT !.result = how]

\* new Chart(ctx, {data: {labels: recent.map(r => r.date),
\*                        datasets: [{data: recent.map(r => r.close)}]}})
ChartOf(rec) ==
  [labels |-> [i \in 1..Len(rec) |-> rec[i].date],
   data   |-> [i \in 1..Len(rec) |-> rec[i].close]]

sPlus(diff) == IF GeZero(diff) THEN <<"+">> ELSE <<>>

\* `${sign}${diff.toFixed(2)} (${sign}${pct.toFixed(2)}%)`
SignedChange(diff, pct) ==
  sPlus(diff) \o toFixed2(diff) \o <<" ", "(">> \o sPlus(diff)
    \o toFixed2(pct) \o <<"%", ")">>

\* `${diff.toFixed(2)} (${pct.toFixed(2)}%)`
PlainChange(diff, pct) ==
  toFixed2(diff) \o <<" ", "(">> \o toFixed2(pct) \o <<"%", ")">>

\* main.js lines 57-101, entered with a non-empty series.
mainRender(lay, rec, lst, prv) ==
  LET c1 == IF lay.lastEl
            THEN [EmptyCard EXCEPT !.lastClose = toFixed2(lst.close)]
            ELSE EmptyCard
      diff == Sub(lst.close, prv.close)
      c2 == IF lay.changeEl /\ IsRecord(prv) /\ Truthy(prv.close)
            THEN [c1 EXCEPT !.change = SignedChange(diff, Pct(diff, prv.close))]
            ELSE c1
  IN IF ~lay.ctx THEN Ended(c2, "returned")
     ELSE Ended([c2 EXCEPT !.chart = ChartOf(rec)], "returned")

\* historical-test.js lines 115-177, entered with a non-empty series.
histRender(lay, rec, lst, prv) ==
  LET c1 == IF lay.lastEl
            THEN [EmptyCard EXCEPT !.lastClose = toFixed2(lst.close)]
            ELSE EmptyCard
      c2 == IF lay.changeEl /\ IsRecord(prv)
            THEN LET diff == Sub(lst.close, prv.close)
                 IN [c1 EXCEPT
                       !.change = SignedChange(diff, Pct(diff, prv.close)),
                       !.classes = IF GeZero(diff) THEN {"positive"}
                                   ELSE {"negative"}]
            ELSE c1
  IN IF ~lay.ctx THEN Ended(c2, "returned")
     ELSE Ended([c2 EXCEPT !.chart = ChartOf(rec)], "returned")

\* part_000 lines 34-60: nothing is guarded, so a missing element or a
\* missing record is a TypeError that leaves the function.  Chart.js given
\* no canvas logs an error and draws nothing.
part000Render(lay, rec, lst, prv) ==
  IF ~lay.card \/ ~lay.lastEl \/ ~IsRecord(lst) THEN Ended(EmptyCard, "threw")
  ELSE LET c1 == [EmptyCard EXCEPT !.lastClose = toFixed2(lst.close)]
       IN IF ~IsRecord(prv) \/ ~lay.changeEl THEN Ended(c1, "threw")
          ELSE LET diff == Sub(lst.close, prv.close)
                   c2 == [c1 EXCEPT
                            !.change = PlainChange(diff, Pct(diff, prv.close))]
               IN IF ~lay.ctx THEN Ended(c2, "returned")
                  ELSE Ended([c2 EXCEPT !.chart = ChartOf(rec)], "returned")

Render(v, lay, rec, lst, prv) ==
  CASE v = "main" -> mainRender(lay, rec, lst, prv)
    [] v = "part000" -> part000Render(lay, rec, lst, prv)
    [] v = "hist" -> histRender(lay, rec, lst, prv)

\* `if (!rows.length) return;` (main.js line 51, historical-test.js line
\* 109); part_000 has no such line.
ReturnsOnEmpty(v, rws) == v # "part000" /\ rws = <<>>

\* Everything a load does once the response text is there.
LoadCard(v, lay, txt, cp) ==
  LET rws == Parse(v, txt)
      rec == Recent(rws, cp)
  IN IF ReturnsOnEmpty(v, rws) THEN Ended(EmptyCard, "returned")
     ELSE Render(v, lay, rec, LastOf(rec), PrevOf(v, rec))

(***************************************************************************)
(* Spec: the pipeline on one fetched text, a step at a time.               *)
(***************************************************************************)
Idle == "-"

LoadIdle == pc = <<>> /\ page = <<>> /\ resp = <<>> /\ dom = <<>>

TableIdle == tbody = <<>> /\ tstate = Idle /\ queries = <<>>

Init ==
  /\ variant \in Variants
  /\ chartPoints \in 1..MaxChartPoints
  /\ file \in Files
  /\ text = CsvText(file)
  /\ stage = "fetched"
  /\ rows = <<>>
  /\ recent = <<>>
  /\ last = Undefined
  /\ prev = Undefined
  /\ layout = Full
  /\ card = EmptyCard
  /\ LoadIdle
  /\ TableIdle

ParseStep ==
  /\ stage = "fetched"
  /\ rows' = Parse(variant, text)
  /\ stage' = "parsed"
  /\ UNCHANGED <<variant, chartPoints, file, text, recent, last, prev, layout,
                 card, loadVars, tableVars>>

EmptyReturn ==
  /\ stage = "parsed"
  /\ ReturnsOnEmpty(variant, rows)
  /\ card' = Ended(card, "returned")
  /\ stage' = "rendered"
  /\ UNCHANGED <<variant, chartPoints, file, text, rows, recent, last, prev,
                 layout, loadVars, tableVars>>

SummarizeStep ==
  /\ stage = "parsed"
  /\ ~ReturnsOnEmpty(variant, rows)
  /\ recent' = Recent(rows, chartPoints)
  /\ last' = LastOf(recent')
  /\ prev' = PrevOf(variant, recent')
  /\ stage' = "summarized"
  /\ UNCHANGED <<variant, chartPoints, file, text, rows, layout, card,
                 loadVars, tableVars>>

RenderStep ==
  /\ stage = "summarized"
  /\ \E lay \in Layouts :
       /\ variant = "part000" \/ lay.card
       /\ layout' = lay
       /\ card' = Render(variant, lay, recent, last, prev)
  /\ stage' = "rendered"
  /\ UNCHANGED <<variant, chartPoints, file, text, rows, recent, last, prev,
                 loadVars, tableVars>>

Next == ParseStep \/ EmptyReturn \/ SummarizeStep \/ RenderStep

Spec == Init /\ [][Next]_vars

(***************************************************************************)
(* Properties of the parsed series and of the card (checked under Spec).   *)
(***************************************************************************)
Parsed == stage # "fetched"
Rendered == stage = "rendered"

Range(f) == { f[i] : i \in DOMAIN f }
HasDate == sDate \in Range(file.tbl.header)
HasClose == sClose \in Range(file.tbl.header)

\* The data line of r carries field number pos.
Covers(r, pos) == r.cut = 0 \/ r.cut >= pos

\* The data lines of the file that carry a numeric close, in file order.
NumericLines ==
  SelectSeq(file.recs,
            LAMBDA r : Covers(r, file.tbl.closePos) /\ r.num.k = "num")

\* The data lines of the file that carry both columns.
CoveringLines ==
  SelectSeq(file.recs,
            LAMBDA r : Covers(r, file.tbl.closePos) /\ Covers(r, file.tbl.datePos))

\* The record of a data line: its date field if the line has one, its close.
RecordOf(r) ==
  Row(IF Covers(r, file.tbl.datePos) THEN r.date ELSE UNDEF, r.num)

\* C1: every record of the parsed series has a numeric close; a line whose
\* close is missing or not a number never appears in the series.
C1_CloseIsNumeric ==
  Parsed => \A i \in 1..Len(rows) : ~isNaN(rows[i].close)

\* C2: a header without the Date column or without the Close column gives
\* an empty series, whatever the data lines hold.
C2_MissingColumnGivesEmpty ==
  (Parsed /\ (~HasDate \/ ~HasClose)) => rows = <<>>

\* C3: when the header has both columns, the parsed series is exactly the
\* data lines with a numeric close, each once, in file order.
C3_ExactSubsequence ==
  (Parsed /\ HasDate /\ HasClose) =>
     rows = [i \in 1..Len(NumericLines) |-> RecordOf(NumericLines[i])]

\* C4: a data line with too few fields to cover both the date column and
\* the close column yields no record: the series holds no more records than
\* there are lines covering both columns, and no record without a date.
C4_ShortLineSkipped ==
  (Parsed /\ HasDate /\ HasClose) =>
     /\ Len(rows) <= Len(CoveringLines)
     /\ \A i \in 1..Len(rows) : rows[i].date # UNDEF

\* C5: for a series of exactly one record there is no previous record, the
\* change field is left unwritten and the load ends without an error.
C5_SingleRecordNoChange ==
  (Rendered /\ Len(rows) = 1) =>
     /\ ~IsRecord(prev)
     /\ card.change = Unwritten
     /\ card.result = "returned"

\* C6: for a non-empty series the window is its suffix of length
\* min(CHART_POINTS, |series|) in the original order, the latest record is
\* the last record of the series, and the series is still what parsing
\* returned.
C6_WindowIsSuffix ==
  (stage \in {"summarized", "rendered"} /\ rows # <<>>) =>
     LET n == IF chartPoints < Len(rows) THEN chartPoints ELSE Len(rows)
     IN /\ Len(recent) = n
        /\ \A i \in 1..n : recent[i] = rows[Len(rows) - n + i]
        /\ last = rows[Len(rows)]
        /\ rows = Parse(variant, text)

\* C6 witness: a window strictly shorter than the series it was cut from.
C6_Witness ==
  /\ stage = "summarized"
  /\ Len(rows) = 3
  /\ chartPoints = 2
  /\ recent = <<rows[2], rows[3]>>
  /\ rows[1] # rows[3]

\* C7: when the previous record's close is 0, no percentage is written to
\* the change field.
C7_ZeroPrevNotWritten ==
  (Rendered /\ IsRecord(prev) /\ prev.close = Num(0)) =>
     card.change = Unwritten

(***************************************************************************)
(* SpecLoad: the loads of all symbols, started together on                 *)
(* DOMContentLoaded; each suspends at `await fetch(url)` and at            *)
(* `await resp.text()`, and the responses arrive in any order.             *)
(***************************************************************************)
IndexSymbolNames ==
  <<"Nifty", "Nifty Bank", "Nifty IT", "Nifty Midcap 100", "Nifty Smallcap 100">>

INDEX_SYMBOLS == SubSeq(IndexSymbolNames, 1, NumSymbols)

Symbols == 1..NumSymbols

\* What a selector with no symbol in it (`.card`) would find: the first card.
FirstCardKey(symbol) == INDEX_SYMBOLS[1]

\* `.card[data-symbol="${symbol}"]` and `chart-${symbol}`: the card and the
\* canvas of a symbol are found by the symbol's name.
CardKey(symbol) == symbol

LoadLayouts == {Full, NoCard}

LoadFiles ==
  { [tbl |-> [header |-> <<sDate, sClose>>, datePos |-> 1, closePos |-> 2],
     recs |-> <<[date |-> d1, close |-> <<"1", "0", "0">>, num |-> Num(10000), cut |-> 0],
                [date |-> d2, close |-> <<"1", "1", "0">>, num |-> Num(11000), cut |-> 0]>>,
     eol |-> <<LF>>],
    [tbl |-> [header |-> <<sX, sDate, sX, sX, sX, sClose>>, datePos |-> 2, closePos |-> 6],
     recs |-> <<[date |-> d1, close |-> <<"1", "1", "0">>, num |-> Num(11000), cut |-> 0],
                [date |-> d2, close |-> <<"1", "0", "0">>, num |-> Num(10000), cut |-> 0]>>,
     eol |-> <<LF>>],
    [tbl |-> [header |-> <<sTime, sClose>>, datePos |-> 1, closePos |-> 2],
     recs |-> <<[date |-> d1, close |-> <<"1", "0", "0">>, num |-> Num(10000), cut |-> 0]>>,
     eol |-> <<LF>>],
    [tbl |-> [header |-> <<sDate, sClose>>, datePos |-> 1, closePos |-> 2],
     recs |-> <<[date |-> d2, close |-> <<"a", "b", "c">>, num |-> NaN, cut |-> 0]>>,
     eol |-> <<CR, LF>>] }

NoResp == [kind |-> "none"]

InitLoad ==
  /\ variant \in Variants
  /\ chartPoints \in 1..MaxChartPoints
  /\ pc = [s \in Symbols |-> "init"]
  /\ page \in [Symbols -> LoadLayouts]
  /\ resp = [s \in Symbols |-> NoResp]
  /\ dom = [k \in Range(INDEX_SYMBOLS) |-> EmptyCard]
  /\ file = Idle /\ text = <<>> /\ stage = Idle /\ rows = <<>> /\ recent = <<>>
  /\ last = Undefined /\ prev = Undefined /\ layout = Full /\ card = EmptyCard
  /\ TableIdle

\* The content of the card of symbol number s.
Draw(s, c) == [dom EXCEPT ![CardKey(INDEX_SYMBOLS[s])] = c]

\* forEach calls the loads in order; each runs up to its first await.  The
\* scripts with `if (!card) return;` end there when the card is missing.
Start(s) ==
  /\ pc[s] = "init"
  /\ \A t \in 1..(s - 1) : pc[t] # "init"
  /\ IF variant # "part000" /\ ~page[s].card
     THEN /\ pc' = [pc EXCEPT ![s] = "done"]
          /\ dom' = Draw(s, Ended(EmptyCard, "returned"))
     ELSE /\ pc' = [pc EXCEPT ![s] = "fetch"]
          /\ dom' = dom
  /\ UNCHANGED <<variant, chartPoints, parseVars, page, resp, tableVars>>

\* fetch rejects (network failure): caught and logged by the scripts with a
\* try block; in part_000 the rejection leaves loadSymbol.
FetchReject(s) ==
  /\ pc[s] = "fetch"
  /\ resp' = [resp EXCEPT ![s] = [kind |-> "rejected"]]
  /\ pc' = [pc EXCEPT ![s] = "done"]
  /\ dom' = Draw(s, Ended(EmptyCard,
                          IF variant = "part000" THEN "threw" ELSE "caught"))
  /\ UNCHANGED <<variant, chartPoints, parseVars, page, tableVars>>

\* `if (!resp.ok) { console.log(...); return; }`
FetchNotOk(s) ==
  /\ pc[s] = "fetch"
  /\ resp' = [resp EXCEPT ![s] = [kind |-> "notok"]]
  /\ pc' = [pc EXCEPT ![s] = "done"]
  /\ dom' = Draw(s, Ended(EmptyCard, "returned"))
  /\ UNCHANGED <<variant, chartPoints, parseVars, page, tableVars>>

\* The response is ok; the load now awaits its text.
FetchOk(s) ==
  /\ pc[s] = "fetch"
  /\ \E f \in LoadFiles :
       resp' = [resp EXCEPT ![s] = [kind |-> "ok", file |-> f, text |-> CsvText(f)]]
  /\ pc' = [pc EXCEPT ![s] = "text"]
  /\ UNCHANGED <<variant, chartPoints, parseVars, page, dom, tableVars>>

\* The text arrives; the rest of the load runs without suspending.
TextDone(s) ==
  /\ pc[s] = "text"
  /\ pc' = [pc EXCEPT ![s] = "done"]
  /\ dom' = Draw(s, LET c == LoadCard(variant, page[s], resp[s].text, chartPoints)
                    IN IF c.result = "threw" /\ variant # "part000"
                       THEN Ended(c, "caught") ELSE c)
  /\ UNCHANGED <<variant, chartPoints, parseVars, page, resp, tableVars>>

NextLoad ==
  \E s \in Symbols :
    Start(s) \/ FetchReject(s) \/ FetchNotOk(s) \/ FetchOk(s) \/ TextDone(s)

SpecLoad == InitLoad /\ [][NextLoad]_vars

\* What the load of symbol s leaves on a card, from that symbol's page
\* elements and fetch outcome alone.
ExpectedCard(s) ==
  IF variant # "part000" /\ ~page[s].card THEN Ended(EmptyCard, "returned")
  ELSE CASE resp[s].kind = "rejected" ->
              Ended(EmptyCard, IF variant = "part000" THEN "threw" ELSE "caught")
         [] resp[s].kind = "notok" -> Ended(EmptyCard, "returned")
         [] resp[s].kind = "ok" ->
              LoadCard(variant, page[s], resp[s].text, chartPoints)

\* The load of symbol s ended in one of the failures of section 7.
Failed(s) ==
  \/ resp[s].kind \in {"rejected", "notok"}
  \/ /\ resp[s].kind = "ok"
     /\ \/ sDate \notin Range(resp[s].file.tbl.header)
        \/ sClose \notin Range(resp[s].file.tbl.header)
        \/ Parse(variant, resp[s].text) = <<>>

\* C8: no load ends in an exception that leaves it, and a load whose fetch
\* failed, whose response was not ok, whose header lacks a column or whose
\* series is empty writes nothing: no last close, no change, no chart.
C8_FailureIsNoOp ==
  \A s \in Symbols :
    pc[s] = "done" =>
      /\ dom[INDEX_SYMBOLS[s]].result # "threw"
      /\ Failed(s) =>
           /\ dom[INDEX_SYMBOLS[s]].lastClose = Unwritten
           /\ dom[INDEX_SYMBOLS[s]].change = Unwritten
           /\ dom[INDEX_SYMBOLS[s]].chart = NoChart

\* C9: under every interleaving each card holds what its own symbol's load
\* left there, which depends on that symbol's page elements and fetched
\* text alone; until that load ends the card is untouched, whatever the
\* other loads did or however they failed.
C9_OwnCardOnly ==
  \A s \in Symbols :
    dom[INDEX_SYMBOLS[s]] =
      IF pc[s] = "done" THEN ExpectedCard(s) ELSE EmptyCard

\* C9 witness: the second symbol's chart is drawn although the first
\* symbol's load, started before it, failed.
C9_Witness ==
  /\ pc[1] = "done" /\ pc[2] = "done"
  /\ resp[1].kind = "rejected"
  /\ dom[INDEX_SYMBOLS[1]].chart = NoChart
  /\ resp[2].kind = "ok"
  /\ dom[INDEX_SYMBOLS[2]].chart # NoChart
  /\ dom[INDEX_SYMBOLS[2]].lastClose # Unwritten

(***************************************************************************)
(* SpecTable: the historical results table of historical-test.js and its   *)
(* search box.                                                             *)
(***************************************************************************)
UpperCase ==
  <<"A", "B", "C", "D", "E", "F", "G", "H", "I", "J", "K", "L", "M",
    "N", "O", "P", "Q", "R", "S", "T", "U", "V", "W", "X", "Y", "Z">>
LowerCase ==
  <<"a", "b", "c", "d", "e", "f", "g", "h", "i", "j", "k", "l", "m",
    "n", "o", "p", "q", "r", "s", "t", "u", "v", "w", "x", "y", "z">>

\* String.prototype.toLowerCase
toLowerCase(str) ==
  [i \in 1..Len(str) |->
     IF \E j \in 1..26 : UpperCase[j] = str[i]
     THEN LowerCase[CHOOSE j \in 1..26 : UpperCase[j] = str[i]]
     ELSE str[i]]

\* String.prototype.includes
includes(str, q) ==
  \E i \in 0..(Len(str) - Len(q)) : SubSeq(str, i + 1, i + Len(q)) = q

TableRecs ==
  { [symbol |-> <<"T", "c", "s">>, winrate |-> 55],
    [symbol |-> <<"I", "t", " ", "C", "o">>, winrate |-> 60],
    [symbol |-> <<"a", "b", "c">>, winrate |-> 55] }

TableData == UNION { [1..n -> TableRecs] : n \in 0..MaxTableRows }

Queries ==
  { <<>>, <<" ">>, <<"t">>, <<"T", "C">>, <<" ", "t">>, <<"z">> }

\* data.sort((a, b) => b.winrate - a.winrate): stable, highest first.
RECURSIVE InsertByWinrate(_, _)
InsertByWinrate(sorted, r) ==
  IF sorted = <<>> THEN <<r>>
  ELSE IF Head(sorted).winrate >= r.winrate
       THEN <<Head(sorted)>> \o InsertByWinrate(Tail(sorted), r)
       ELSE <<r>> \o sorted

RECURSIVE sortByWinrate(_)
sortByWinrate(data) ==
  IF data = <<>> THEN <<>>
  ELSE InsertByWinrate(sortByWinrate(SubSeq(data, 1, Len(data) - 1)),
                       data[Len(data)])

\* The nine cells of the row template (lines 19-29); the columns the model
\* does not vary hold "1".
Cells(r) ==
  << r.symbol, <<"1">>, NatStr(r.winrate) \o <<"%">>, <<"1">>, <<"1">>,
     <<"1", "%">>, <<"1", "%">>, <<"1", "%">>, <<"V", "i", "e", "w">> >>

Indent(n) == [i \in 1..n |-> SP]

\* textContent of a row: the template's own line breaks and indentation
\* stay in the row as text between the cells.
textContent(cells) ==
  Concat([i \in 1..Len(cells) |-> <<LF>> \o Indent(8) \o cells[i]])
    \o <<LF>> \o Indent(6)

\* innerText of a row that is being rendered: the cells, tab-separated.
renderedText(cells) == Join(cells, <<TAB>>)

\* HTMLElement.innerText: an element that is not being rendered (here:
\* display "none") returns its textContent instead of its rendered text.
innerText(row) ==
  IF row.display = "none" THEN textContent(row.cells)
  ELSE renderedText(row.cells)

\* The input listener, lines 35-40.
Filter(tb, value) ==
  LET q == toLowerCase(value)
  IN [i \in 1..Len(tb) |->
        [tb[i] EXCEPT !.display =
           IF includes(toLowerCase(innerText(tb[i])), q) THEN "" ELSE "none"]]

\* The table as first filled: every row shown.
AllShown(tb) == [i \in 1..Len(tb) |-> [tb[i] EXCEPT !.display = ""]]

InitTable ==
  /\ variant = "hist"
  /\ chartPoints = 1
  /\ tbody = <<>>
  /\ tstate = "loading"
  /\ queries = <<>>
  /\ file = Idle /\ text = <<>> /\ stage = Idle /\ rows = <<>> /\ recent = <<>>
  /\ last = Undefined /\ prev = Undefined /\ layout = Full /\ card = EmptyCard
  /\ LoadIdle

\* `if (!res.ok) { console.error(...); return; }`
TableNotOk ==
  /\ tstate = "loading"
  /\ tstate' = "notok"
  /\ UNCHANGED <<variant, chartPoints, parseVars, loadVars, tbody, queries>>

\* fetch or res.json() rejects: caught and logged.
TableError ==
  /\ tstate = "loading"
  /\ tstate' = "error"
  /\ UNCHANGED <<variant, chartPoints, parseVars, loadVars, tbody, queries>>

\* Lines 9-40: sort the data, append a row for each record, register the
\* listener.
TableFill ==
  /\ tstate = "loading"
  /\ \E data \in TableData :
       LET sorted == sortByWinrate(data)
       IN tbody' = [i \in 1..Len(sorted) |->
                      [cells |-> Cells(sorted[i]), display |-> ""]]
  /\ tstate' = "ready"
  /\ UNCHANGED <<variant, chartPoints, parseVars, loadVars, queries>>

\* One input event of the search box.
SearchInput ==
  /\ tstate = "ready"
  /\ Len(queries) < MaxSearches
  /\ \E value \in Queries :
       /\ tbody' = Filter(tbody, value)
       /\ queries' = Append(queries, value)
  /\ UNCHANGED <<variant, chartPoints, parseVars, loadVars, tstate>>

NextTable == TableNotOk \/ TableError \/ TableFill \/ SearchInput

SpecTable == InitTable /\ [][NextTable]_vars

\* C10: after any sequence of search inputs the visible rows are those the
\* most recent query alone selects (what it selects in the table as first
\* filled): a row is visible iff its lower-cased text contains the
\* lower-cased query, and an empty query shows every row.
C10_LastQueryDecides ==
  (tstate = "ready" /\ queries # <<>>) =>
     LET value == queries[Len(queries)]
     IN /\ tbody = Filter(AllShown(tbody), value)
        /\ \A i \in 1..Len(tbody) :
             (tbody[i].display = "") <=>
               includes(toLowerCase(renderedText(tbody[i].cells)),
                        toLowerCase(value))
        /\ value = <<>> => \A i \in 1..Len(tbody) : tbody[i].display = ""

====
